---- MODULE Spec2Model ----
(***************************************************************************)
(* Verification model of two XNNPACK micro-kernels:                        *)
(*   xnn_qs8_dwconv_minmax_ukernel_up8x9__avx2_mul32                       *)
(*       (src/src/qs8-dwconv/gen/up8x9-minmax-avx2-mul32.c)                *)
(*   xnn_x32_depth_to_space_chw2hwc_ukernel__scalar_c1_ib2                 *)
(*       (src/src/x32-depth-to-space-chw2hwc/gen/scalar-c1-ib2.c)          *)
(*                                                                         *)
(* Memory is byte addressed; a byte is a number in 0..255.  A 32-bit lane  *)
(* of a vector register is kept as the signed integer its two's            *)
(* complement pattern denotes (Int32Min..Int32Max); 64-bit lanes are kept  *)
(* as little-endian arrays of 8 bytes, so that no intermediate value       *)
(* leaves the range of the 32-bit lanes' own arithmetic.                   *)
(***************************************************************************)
EXTENDS Integers, Sequences, FiniteSets, TLC

VARIABLES
  (* dwconv: arguments of the call(s), fixed over a call *)
  channels,          \* size_t channels
  input_stride,      \* size_t input_stride (bytes between indirection entries)
  output_increment,  \* size_t output_increment
  input_offset,      \* size_t input_offset
  zero,              \* const int8_t* zero
  params,            \* union xnn_qs8_gemm_params (the sse2 fields)
  weights,           \* const void* weights: the packed weight buffer, bytes
  indirection,       \* the indirection buffer: pointers, one per 8-byte slot
  mem,               \* byte memory holding input rows, zero buffer, outputs
  call,              \* per kernel call: program position, locals, registers
  access,            \* per kernel call, the locations accessed so far:
                     \*   rd   addresses of mem read
                     \*   rdc  those read into a lane of a channel < channels
                     \*   wr   addresses of mem written
                     \*   wrd  byte offsets of weights read
  (* depth-to-space *)
  d2s_args,          \* the arguments of the call
  d2s_in,            \* input words, by byte offset from input
  d2s_out,           \* output words, by byte offset from output
  d2s                \* program position and locals

kargs == <<channels, input_stride, output_increment, input_offset, zero,
           params, weights, indirection>>
kvars == <<kargs, mem, call, access>>
dvars == <<d2s_args, d2s_in, d2s_out, d2s>>
vars  == <<kvars, dvars>>

(***************************************************************************)
(* Integer lanes.                                                          *)
(***************************************************************************)
Int32Max == 2147483647
Int32Min == (-2147483647) - 1
Int16Max == 32767
Int16Min == -32768
Int8Max  == 127
Int8Min  == -128

Lanes == 0..7

\* the function f itself, with its values computed once (f is otherwise
\* re-evaluated at every application)
Eval(f) == f @@ <<>>

RECURSIVE SumTo(_, _)
SumTo(f, n) == IF n < 0 THEN 0 ELSE f[n] + SumTo(f, n - 1)

RECURSIVE Pow2(_)
Pow2(n) == IF n = 0 THEN 1 ELSE 2 * Pow2(n - 1)

\* byte i (0 = least significant) of the two's complement pattern of x
ByteOf(x, i) == (x \div Pow2(8 * i)) % 256

\* the 4 / 8 bytes of the pattern of a signed 32-bit value (sign extended)
Bytes32(x) == Eval([i \in 0..3 |-> ByteOf(x, i)])
Bytes64(x) == Eval([i \in 0..7 |-> IF i < 4 THEN ByteOf(x, i)
                              ELSE IF x < 0 THEN 255 ELSE 0])

\* the signed value of a 4-byte little-endian pattern
Signed32(b) ==
  (b[0] + 256 * b[1] + 65536 * b[2])
    + 16777216 * (IF b[3] >= 128 THEN b[3] - 256 ELSE b[3])

\* sign extension of a byte (the lane conversion of _mm256_cvtepi8_epi32)
SExt8(b) == IF b >= 128 THEN b - 256 ELSE b
\* the byte pattern of a signed 8-bit value
Byte8(x) == IF x < 0 THEN x + 256 ELSE x

\* 32-bit wrapping addition (one lane of _mm256_add_epi32)
Add32Sat(a, b) ==
  IF a >= 0 /\ b > Int32Max - a THEN Int32Max
  ELSE IF a < 0 /\ b < Int32Min - a THEN Int32Min
  ELSE a + b
Add32(a, b) ==
  IF a >= 0 /\ b > Int32Max - a
    THEN ((a - Int32Max) - 1) + ((b - Int32Max) - 1)
  ELSE IF a < 0 /\ b < Int32Min - a
    THEN ((a + Int32Max) + 1) + ((b + Int32Max) + 1)
  ELSE a + b

\* 32-bit wrapping subtraction (one lane of _mm256_sub_epi32)
Sub32(a, b) ==
  IF b = Int32Min
    THEN (IF a >= 0 THEN (a - Int32Max) - 1 ELSE (a + Int32Max) + 1)
    ELSE Add32(a, -b)

\* product of two little-endian byte arrays, the low n bytes
RECURSIVE MulBytesFrom(_, _, _, _, _)
MulBytesFrom(a, b, n, k, carry) ==
  IF k = n THEN <<>>
  ELSE LET s == SumTo(Eval([i \in 0..k |-> a[i] * b[k - i]]), k) + carry
       IN  <<s % 256>> \o MulBytesFrom(a, b, n, k + 1, s \div 256)
MulBytes(a, b, n) ==
  LET s == MulBytesFrom(a, b, n, 0, 0) IN Eval([i \in 0..(n - 1) |-> s[i + 1]])

\* sum of two little-endian byte arrays, the low n bytes
RECURSIVE AddBytesFrom(_, _, _, _, _)
AddBytesFrom(a, b, n, k, carry) ==
  IF k = n THEN <<>>
  ELSE LET s == a[k] + b[k] + carry
       IN  <<s % 256>> \o AddBytesFrom(a, b, n, k + 1, s \div 256)
AddBytes(a, b, n) ==
  LET s == AddBytesFrom(a, b, n, 0, 0) IN Eval([i \in 0..(n - 1) |-> s[i + 1]])

\* bitwise and of two bytes
RECURSIVE AndBits(_, _, _)
AndBits(x, y, n) ==
  IF n = 0 THEN 0
  ELSE (x % 2) * (y % 2) + 2 * AndBits(x \div 2, y \div 2, n - 1)

(***************************************************************************)
(* Vector registers and the intrinsics the kernel uses.                    *)
(*   an __m256i of 32-bit lanes : [0..7 -> Int32Min..Int32Max]             *)
(*   an __m256i of 64-bit lanes : [0..3 -> [0..7 -> 0..255]]               *)
(*   an __m128i of 16-bit lanes : [0..7 -> Int16Min..Int16Max]             *)
(*   an __m128i of bytes        : [0..15 -> 0..255]                        *)
(***************************************************************************)
Low32(b)  == Signed32(Eval([i \in 0..3 |-> b[i]]))
High32(b) == Signed32(Eval([i \in 0..3 |-> b[4 + i]]))

\* the 8 bytes at address a of byte array m (one _mm_loadl_epi64)
mm_loadl_epi64(m, a) == Eval([i \in Lanes |-> m[a + i]])
\* eight 32-bit lanes at byte offset a of byte array m (_mm256_loadu_si256)
mm256_loadu_si256(m, a) ==
  Eval([l \in Lanes |-> Signed32([i \in 0..3 |-> m[a + 4 * l + i]])])
mm256_cvtepi8_epi32(v) == Eval([l \in Lanes |-> SExt8(v[l])])
mm256_mullo_epi32(a, b) ==
  Eval([l \in Lanes |-> Signed32(MulBytes(Bytes32(a[l]), Bytes32(b[l]), 4))])
mm256_add_epi32(a, b) == Eval([l \in Lanes |-> Add32(a[l], b[l])])
mm256_sub_epi32(a, b) == Eval([l \in Lanes |-> Sub32(a[l], b[l])])
\* _mm256_srli_epi64(v, 32) seen on the 32-bit lanes of v
mm256_srli_epi64_32(v) == Eval([l \in Lanes |-> IF l % 2 = 0 THEN v[l + 1] ELSE 0])
\* signed product of the low 32-bit lane of every 64-bit lane
mm256_mul_epi32(a, b) ==
  Eval([m \in 0..3 |-> MulBytes(Bytes64(a[2 * m]), Bytes64(b[2 * m]), 8)])
mm256_add_epi64(x, y) == Eval([m \in 0..3 |-> AddBytes(x[m], y[m], 8)])
\* logical right shift of every 64-bit lane by n bits, 0 <= n < 64
SrlBytes(b, n) ==
  LET q == n \div 8
      r == n % 8
      B(j) == IF j > 7 THEN 0 ELSE b[j]
  IN  Eval([i \in 0..7 |-> (B(i + q) \div Pow2(r)) + (B(i + q + 1) % Pow2(r)) * Pow2(8 - r)])
mm256_srli_epi64(x, n) == Eval([m \in 0..3 |-> SrlBytes(x[m], n)])
\* _mm256_blend_epi16(a, b, 0xCC): 16-bit words 2,3,6,7 of every 128-bit lane
\* from b, the others from a; the result seen as eight 32-bit lanes
mm256_blend_epi16_0xCC(a, b) ==
  Eval([l \in Lanes |-> IF l % 2 = 0 THEN Low32(a[l \div 2]) ELSE High32(b[l \div 2])])
mm256_and_si256(a, b) ==
  Eval([l \in Lanes |->
     Signed32([i \in 0..3 |-> AndBits(ByteOf(a[l], i), ByteOf(b[l], i), 8)])])
\* all ones (-1) where a > b, signed
CmpGe32(a, b) == IF a >= b THEN -1 ELSE 0
CmpGt32(a, b) == IF a > b THEN -1 ELSE 0
mm256_cmpgt_epi32(a, b) == Eval([l \in Lanes |-> CmpGt32(a[l], b[l])])
\* arithmetic right shift by the count in the low 64 bits of the count register
Srl32(x, n) ==
  IF n > 31 THEN 0
  ELSE IF n = 31 THEN (IF x < 0 THEN 1 ELSE 0)
  ELSE IF x >= 0 \/ n = 0 THEN x \div Pow2(n)
  ELSE ((x + Int32Max) + 1) \div Pow2(n) + Pow2(31 - n)
Sra32(x, n) ==
  IF n > 31 THEN (IF x < 0 THEN -1 ELSE 0)
  ELSE IF n = 31 THEN (IF x < 0 THEN -1 ELSE 0)
  ELSE x \div Pow2(n)
mm256_sra_epi32(a, n) == Eval([l \in Lanes |-> Sra32(a[l], n)])
mm256_set1(x) == Eval([l \in Lanes |-> x])

Wrap16(x) == ((x + 32768) % 65536) - 32768
Sat16(x) == IF x > Int16Max THEN Int16Max ELSE IF x < Int16Min THEN Int16Min ELSE x
Sat8(x)  == IF x > Int8Max THEN Int8Max ELSE IF x < Int8Min THEN Int8Min ELSE x
\* _mm_packs_epi32(lo, hi) of the two 128-bit halves of a
mm_packs_epi32(a) == Eval([l \in Lanes |-> Sat16(a[l])])
mm_adds_epi16(a, b) == Eval([l \in Lanes |-> Sat16(a[l] + b[l])])
mm_max_epi16(a, b) == Eval([l \in Lanes |-> IF a[l] > b[l] THEN a[l] ELSE b[l]])
mm_min_epi16(a, b) == Eval([l \in Lanes |-> IF a[l] < b[l] THEN a[l] ELSE b[l]])
mm_packs_epi16(a, b) ==
  Eval([i \in 0..15 |-> Byte8(Sat8(IF i < 8 THEN a[i] ELSE b[i - 8]))])
\* _mm_srli_epi64(v, 32) and _mm_srli_epi32(v, 16) on the 16 bytes of v
mm_srli_epi64_32(v) == Eval([i \in 0..15 |-> IF i % 8 < 4 THEN v[i + 4] ELSE 0])
mm_srli_epi32_8(v)  == Eval([i \in 0..15 |-> IF i % 4 < 3 THEN v[i + 1] ELSE 0])
mm_srli_epi32_16(v) == Eval([i \in 0..15 |-> IF i % 4 < 2 THEN v[i + 2] ELSE 0])

(***************************************************************************)
(* Requantization of the eight accumulators of a tile (lines 142-172 and,  *)
(* the same statements, 238-267).  p holds the sse2 fields of the          *)
(* parameter block, each array field by the value all its elements hold.   *)
(***************************************************************************)
Q31Product(vacc01234567, p) ==
  LET vmultiplier  == mm256_set1(p.multiplier)
      vrounding    == Eval([m \in 0..3 |-> Bytes64(p.rounding)])
      vacc1357     == mm256_srli_epi64_32(vacc01234567)
      vprod0246    == mm256_add_epi64(mm256_mul_epi32(vacc01234567, vmultiplier), vrounding)
      vprod1357    == mm256_add_epi64(mm256_mul_epi32(vacc1357, vmultiplier), vrounding)
      vq31prod0246 == mm256_srli_epi64(vprod0246, 31)
      vq31prod1357 == mm256_add_epi64(vprod1357, vprod1357)
  IN  mm256_blend_epi16_0xCC(vq31prod0246, vq31prod1357)

Remainder(vq31prod01234567, p) ==
  mm256_add_epi32(mm256_and_si256(vq31prod01234567, mm256_set1(p.remainder_mask)),
                  mm256_cmpgt_epi32(mm256_set1(0), vq31prod01234567))

ShiftRound(vq31prod01234567, p) ==
  LET vrem01234567 == Remainder(vq31prod01234567, p)
  IN  mm256_sub_epi32(mm256_sra_epi32(vq31prod01234567, p.shift),
                      mm256_cmpgt_epi32(vrem01234567, mm256_set1(p.remainder_threshold)))

Narrow(vacc01234567, p) ==
  LET vout01234567 == mm_adds_epi16(mm_packs_epi32(vacc01234567),
                                    mm256_set1(p.output_zero_point))
      vclamped     == mm_min_epi16(mm_max_epi16(vout01234567, mm256_set1(p.output_min)),
                                   mm256_set1(p.output_max))
  IN  mm_packs_epi16(vclamped, vclamped)

(***************************************************************************)
(* The dwconv kernel, one action per load from or store to memory that a   *)
(* concurrent call could write, with the register arithmetic that follows  *)
(* it.  call[q] holds the locals of call q:                                *)
(*   pc            program position                                        *)
(*   input         the indirection cursor, a byte offset into the buffer   *)
(*   output        the output pointer, an address of mem                   *)
(*   output_width  the columns still to do                                 *)
(*   i             i0..i8, addresses of mem                                *)
(*   c, w          channels left in the column; byte offset into weights   *)
(*   k             the tap the unrolled sequence has reached               *)
(*   vacc, vq31prod, vout   vacc01234567, vq31prod01234567,                *)
(*                          vout0123456701234567                           *)
(*   input0, output0, width0   the arguments the call was given            *)
(***************************************************************************)
Calls == {1, 2}
Taps  == 0..8

\* lines 35-37: the offset is added unless the pointer is the zero pointer
TapPointerNoTest(ptr, z, off) == ptr + off
TapPointer(ptr, z, off) == IF ptr # z THEN ptr + off ELSE ptr

\* byte offset, within a tile, of the weights of tap k (lines 87 .. 135)
TapWeightOffsetShifted(k) == 8 * 4 + 8 * ((k + 1) % 9)
TapWeightOffset(k) == 8 * 4 + 8 * k

\* line 140 and line 236: the advance of w
FullTileAdvanceNoBias == 72
FullTileAdvance == 8 * 4 + 72
TailTileAdvance == 8 * 4

\* the loop tests of lines 82 and 177
TilePcNoTail(c) == IF c >= 8 THEN "full_bias" ELSE "column_end"
TilePc(c) == IF c >= 8 THEN "full_bias" ELSE IF c # 0 THEN "tail_bias" ELSE "column_end"

Bit(c, b) == (c \div b) % 2 = 1
\* the tests of lines 269, 274, 279, from the one for bit b on
TailStorePc(c, b) ==
  IF b >= 4 /\ Bit(c, 4) THEN "tail_store4"
  ELSE IF b >= 2 /\ Bit(c, 2) THEN "tail_store2"
  ELSE IF b >= 1 /\ Bit(c, 1) THEN "tail_store1"
  ELSE "column_end"

Range(a, n) == a..(a + n - 1)
\* a store one byte wider than asked
StoreBytesWide(m, a, v, n) ==
  Eval([x \in DOMAIN m |-> IF x \in Range(a, n + 1) THEN v[x - a] ELSE m[x]])
StoreBytes(m, a, v, n) ==
  Eval([x \in DOMAIN m |-> IF x \in Range(a, n) THEN v[x - a] ELSE m[x]])

Column(q) == call[q].width0 - call[q].output_width

\* lines 33-80
LoadTapPointers(q) ==
  /\ call[q].pc = "load_pointers"
  /\ LET slot == call[q].input \div 8
     IN  call' = [call EXCEPT
           ![q].i = [k \in Taps |-> TapPointer(indirection[slot + k], zero, input_offset)],
           ![q].input = call[q].input + input_stride,
           ![q].c = channels,
           ![q].w = 0,
           ![q].pc = TilePc(channels)]
  /\ UNCHANGED <<kargs, mem, access, dvars>>

\* line 83 / line 179
LoadBias(q, here, next) ==
  /\ call[q].pc = here
  /\ call' = [call EXCEPT
       ![q].vacc = mm256_loadu_si256(weights, call[q].w),
       ![q].k = 0,
       ![q].pc = next]
  /\ access' = [access EXCEPT ![q].wrd = @ \cup Range(call[q].w, 32)]
  /\ UNCHANGED <<kargs, mem, dvars>>

\* one tap of the unrolled sequence: lines 86-90 (93-96, ...) / 182-186 (...)
Tap(q, here, next) ==
  /\ call[q].pc = here
  /\ LET k  == call[q].k
         ik == call[q].i[k]
         wk == call[q].w + TapWeightOffset(k)
         vi == mm256_cvtepi8_epi32(mm_loadl_epi64(mem, ik))
         vk == mm256_cvtepi8_epi32(mm_loadl_epi64(weights, wk))
     IN  /\ call' = [call EXCEPT
               ![q].i[k] = ik + 8,
               ![q].vacc = mm256_add_epi32(call[q].vacc, mm256_mullo_epi32(vi, vk)),
               ![q].k = k + 1,
               ![q].pc = IF k = 8 THEN next ELSE here]
         /\ access' = [access EXCEPT
               ![q].rd = @ \cup Range(ik, 8),
               ![q].rdc = @ \cup Range(ik, IF call[q].c >= 8 THEN 8 ELSE call[q].c),
               ![q].wrd = @ \cup Range(wk, 8)]
  /\ UNCHANGED <<kargs, mem, dvars>>

\* lines 140-172 / 236-267
Requantize(q, here, advance, next) ==
  /\ call[q].pc = here
  /\ LET vq31prod01234567 == Q31Product(call[q].vacc, params)
         vscaled          == ShiftRound(vq31prod01234567, params)
     IN  call' = [call EXCEPT
           ![q].w = call[q].w + advance,
           ![q].vq31prod = vq31prod01234567,
           ![q].vacc = vscaled,
           ![q].vout = Narrow(vscaled, params),
           ![q].pc = next]
  /\ UNCHANGED <<kargs, mem, access, dvars>>

FullBias(q) == LoadBias(q, "full_bias", "full_tap")
FullTap(q)  == Tap(q, "full_tap", "full_requantize")
FullRequantize(q) == Requantize(q, "full_requantize", FullTileAdvance, "full_store")

\* lines 174-175 and the loop step of line 82
FullStore(q) ==
  /\ call[q].pc = "full_store"
  /\ mem' = StoreBytes(mem, call[q].output, call[q].vout, 8)
  /\ call' = [call EXCEPT
       ![q].output = call[q].output + 8,
       ![q].c = call[q].c - 8,
       ![q].pc = TilePc(call[q].c - 8)]
  /\ access' = [access EXCEPT ![q].wr = @ \cup Range(call[q].output, 8)]
  /\ UNCHANGED <<kargs, dvars>>

TailBias(q) == LoadBias(q, "tail_bias", "tail_tap")
TailTap(q)  == Tap(q, "tail_tap", "tail_requantize")
TailRequantize(q) ==
  Requantize(q, "tail_requantize", TailTileAdvance, TailStorePc(call[q].c, 4))

\* bytes written by the store under the test of bit b (lines 270, 275, 280)
TailStoreSizeFull(b) == 8
TailStoreSize(b) == b

\* the register after the store of the low 4 / 2 bytes (lines 271 and 276)
ShiftAfterStore4(v) == mm_srli_epi64_32(v)
ShiftAfterStore2Wrong(v) == mm_srli_epi32_8(v)
ShiftAfterStore2(v) == mm_srli_epi32_16(v)

\* lines 269-273
TailStore4(q) ==
  /\ call[q].pc = "tail_store4"
  /\ mem' = StoreBytes(mem, call[q].output, call[q].vout, TailStoreSize(4))
  /\ call' = [call EXCEPT
       ![q].vout = ShiftAfterStore4(call[q].vout),
       ![q].output = call[q].output + 4,
       ![q].pc = TailStorePc(call[q].c, 2)]
  /\ access' = [access EXCEPT ![q].wr = @ \cup Range(call[q].output, TailStoreSize(4))]
  /\ UNCHANGED <<kargs, dvars>>

\* lines 274-278
TailStore2(q) ==
  /\ call[q].pc = "tail_store2"
  /\ mem' = StoreBytes(mem, call[q].output, call[q].vout, TailStoreSize(2))
  /\ call' = [call EXCEPT
       ![q].vout = ShiftAfterStore2(call[q].vout),
       ![q].output = call[q].output + 2,
       ![q].pc = TailStorePc(call[q].c, 1)]
  /\ access' = [access EXCEPT ![q].wr = @ \cup Range(call[q].output, TailStoreSize(2))]
  /\ UNCHANGED <<kargs, dvars>>

\* lines 279-282
TailStore1(q) ==
  /\ call[q].pc = "tail_store1"
  /\ mem' = StoreBytes(mem, call[q].output, call[q].vout, TailStoreSize(1))
  /\ call' = [call EXCEPT
       ![q].output = call[q].output + 1,
       ![q].pc = "column_end"]
  /\ access' = [access EXCEPT ![q].wr = @ \cup Range(call[q].output, TailStoreSize(1))]
  /\ UNCHANGED <<kargs, dvars>>

\* line 286: the output pointer after a column
NextColumnOutputNoIncrement(out, inc) == out
NextColumnOutput(out, inc) == out + inc

\* lines 286-287
ColumnEnd(q) ==
  /\ call[q].pc = "column_end"
  /\ call' = [call EXCEPT
       ![q].output = NextColumnOutput(call[q].output, output_increment),
       ![q].output_width = call[q].output_width - 1,
       ![q].pc = IF call[q].output_width - 1 # 0 THEN "load_pointers" ELSE "done"]
  /\ UNCHANGED <<kargs, mem, access, dvars>>

KernelStep(q) ==
  \/ LoadTapPointers(q)
  \/ FullBias(q)
  \/ FullTap(q)
  \/ FullRequantize(q)
  \/ FullStore(q)
  \/ TailBias(q)
  \/ TailTap(q)
  \/ TailRequantize(q)
  \/ TailStore4(q)
  \/ TailStore2(q)
  \/ TailStore1(q)
  \/ ColumnEnd(q)

(***************************************************************************)
(* The states a call starts from.                                          *)
(*                                                                         *)
(* mem, from address 0: 16 spare bytes; NumPixels input rows of `channels` *)
(* bytes; `extra` spare bytes; the zero buffer, `channels` zero bytes;     *)
(* `extra` spare bytes; the output region of call 1, of call 2; 8 spare    *)
(* bytes.  An indirection slot holds the zero pointer or the address of an *)
(* input row less input_offset.  The packed weights hold one tile of       *)
(* 8 biases and 9 groups of 8 weights for every 8 channels or part of 8.   *)
(***************************************************************************)
MaxChannels == 11
MaxWidth    == 2
Seeds       == {0, 1}

NumPixels == 3
InputBase == 16
\* the byte every location other than the input rows and the zero buffer holds
OutputFill == 170

PixelAddr(ch, px)  == InputBase + px * ch
ZeroAddr(ch, extra) == InputBase + NumPixels * ch + extra
RegionSize(ch, inc, width) == width * (ch + inc)
OutBase(ch, extra, inc, width, q) ==
  ZeroAddr(ch, extra) + ch + extra + (q - 1) * RegionSize(ch, inc, width)
MemSize(ch, extra, inc, width) == OutBase(ch, extra, inc, width, 3) + 8

ByteVals == <<128, 127, 255, 1, 0, 77, 203, 129, 2, 254, 100, 156, 64>>
BiasVals == <<0, 1, -1, Int32Max, Int32Min, 1073741824, -1073741824, 12345678,
              -7000000, 1048576, -1048576, Int32Max - 70000, Int32Min + 70000,
              300, -300, 40000>>

InputByte(seed, a)   == ByteVals[((3 * a + 5 * seed) % 13) + 1]
WeightByte(seed, o)  == ByteVals[((5 * o + 2 + seed) % 13) + 1]
BiasValue(seed, c)   == BiasVals[((7 * c + 5 * seed) % 16) + 1]

InitMem(ch, extra, inc, width, seed) ==
  [a \in 0..(MemSize(ch, extra, inc, width) - 1) |->
     IF a \in Range(InputBase, NumPixels * ch) THEN InputByte(seed, a)
     ELSE IF a \in Range(ZeroAddr(ch, extra), ch) THEN 0
     ELSE OutputFill]

NumTiles(ch) == (ch + 7) \div 8
InitWeights(ch, seed) ==
  [o \in 0..(104 * NumTiles(ch) - 1) |->
     LET t == o \div 104
         r == o % 104
     IN  IF r < 32 THEN ByteOf(BiasValue(seed, 8 * t + r \div 4), r % 4)
         ELSE WeightByte(seed, o)]

NumSlots == 3 + 9 * MaxWidth + 9
InitIndirection(ch, extra, off, seed) ==
  [s \in 0..(NumSlots - 1) |->
     IF (seed = 0 /\ s % 4 = 0) \/ (seed = 1 /\ s % 7 = 3)
       THEN ZeroAddr(ch, extra)
       ELSE PixelAddr(ch, (s + seed * (s \div 2)) % NumPixels) - off]

\* the sse2 fields of the parameter block
ParamSets == <<
  [multiplier |-> 1073741824, rounding |-> 1073741824, shift |-> 0,
   remainder_mask |-> 0, remainder_threshold |-> 0,
   output_zero_point |-> 0, output_min |-> -128, output_max |-> 127],
  [multiplier |-> 1518500250, rounding |-> 1073741824, shift |-> 7,
   remainder_mask |-> 127, remainder_threshold |-> 63,
   output_zero_point |-> 5, output_min |-> -100, output_max |-> 100],
  [multiplier |-> 1073741824, rounding |-> 1073741824, shift |-> 20,
   remainder_mask |-> 1048575, remainder_threshold |-> 524287,
   output_zero_point |-> -3, output_min |-> -128, output_max |-> 127],
  [multiplier |-> 1073741824, rounding |-> 1073741824, shift |-> 0,
   remainder_mask |-> 0, remainder_threshold |-> 0,
   output_zero_point |-> -32768, output_min |-> -128, output_max |-> 127],
  [multiplier |-> Int32Min, rounding |-> 1073741824, shift |-> 33,
   remainder_mask |-> -1, remainder_threshold |-> 1000,
   output_zero_point |-> 32767, output_min |-> 0, output_max |-> 0],
  [multiplier |-> Int32Max, rounding |-> 1073741824, shift |-> 31,
   remainder_mask |-> Int32Max, remainder_threshold |-> 1073741823,
   output_zero_point |-> -1, output_min |-> -128, output_max |-> 127] >>

\* input_stride, input_offset, output_increment
Geometries == {<<24, 0, 0>>, <<72, 16, 3>>, <<24, 16, 5>>}

ZeroLanes == [l \in Lanes |-> 0]
InitCall(q, active, ch, extra, inc, width) ==
  [pc |-> IF q \in active THEN "load_pointers" ELSE "idle",
   input |-> 24 * (q - 1), input0 |-> 24 * (q - 1),
   output |-> OutBase(ch, extra, inc, width, q),
   output0 |-> OutBase(ch, extra, inc, width, q),
   output_width |-> IF q \in active THEN width ELSE 0,
   width0 |-> IF q \in active THEN width ELSE 0,
   i |-> [k \in Taps |-> 0], c |-> 0, w |-> 0, k |-> 0,
   vacc |-> ZeroLanes, vq31prod |-> ZeroLanes, vout |-> [b \in 0..15 |-> 0]]

InitKernel(active, chs, widths, extras, geoms, seeds, psets) ==
  \E ch \in chs, width \in widths, extra \in extras, g \in geoms,
     seed \in seeds, ps \in psets :
    /\ channels = ch
    /\ input_stride = g[1]
    /\ input_offset = g[2]
    /\ output_increment = g[3]
    /\ zero = ZeroAddr(ch, extra)
    /\ params = ParamSets[ps]
    /\ weights = InitWeights(ch, seed)
    /\ indirection = InitIndirection(ch, extra, g[2], seed)
    /\ mem = InitMem(ch, extra, g[3], width, seed)
    /\ call = [q \in Calls |-> InitCall(q, active, ch, extra, g[3], width)]
    /\ access = [q \in Calls |-> [rd |-> {}, rdc |-> {}, wr |-> {}, wrd |-> {}]]

InitD2SIdle ==
  /\ d2s_args = [output_channels |-> 0]
  /\ d2s_in = <<>>
  /\ d2s_out = <<>>
  /\ d2s = [pc |-> "idle"]

(***************************************************************************)
(* One call of the dwconv kernel, run alone.                               *)
(***************************************************************************)
Init ==
  /\ InitKernel({1}, 1..MaxChannels, 1..MaxWidth, {8}, Geometries,
                Seeds, DOMAIN ParamSets)
  /\ InitD2SIdle

Next == \E q \in Calls : KernelStep(q)

Spec == Init /\ [][Next]_vars

(***************************************************************************)
(* Two calls of the dwconv kernel on the same weights, parameters, zero    *)
(* buffer and input rows, each with an output region of its own, their     *)
(* loads and stores interleaved in any order.  With 0 spare bytes the zero *)
(* buffer has exactly `channels` bytes and the output regions follow it.   *)
(***************************************************************************)
InitConc ==
  /\ InitKernel(Calls, {7, 9}, {1}, {0, 8}, {<<24, 0, 0>>, <<72, 16, 3>>},
                {1}, {2, 3})
  /\ InitD2SIdle

SpecConc == InitConc /\ [][Next]_vars

(***************************************************************************)
(* The depth-to-space kernel (scalar-c1-ib2.c).  d2s holds its locals:     *)
(* the counters iy, by, ix, bx, c and the cursors i_iy, o_iy, ... i_c,     *)
(* o_c, byte offsets from input and from output.                           *)
(***************************************************************************)
element_stride == 4

\* lines 42-46
iy_output_increment == d2s_args.block_size * d2s_args.output_height_stride
by_output_increment == d2s_args.output_height_stride
ix_output_increment == d2s_args.block_size * d2s_args.output_width_stride
bx_output_increment == d2s_args.output_width_stride
c_output_increment  == element_stride

\* lines 48-52
c_input_increment  ==
  d2s_args.block_size * d2s_args.block_size * d2s_args.input_channel_stride
by_input_incrementNoBlock == d2s_args.input_channel_stride
by_input_increment == d2s_args.block_size * d2s_args.input_channel_stride
bx_input_increment == d2s_args.input_channel_stride
iy_input_increment == d2s_args.input_height_stride
ix_input_increment == element_stride

\* lines 54-56
D2SStart ==
  /\ d2s.pc = "start"
  /\ d2s' = [d2s EXCEPT !.iy = d2s_args.input_height, !.i_iy = 0, !.o_iy = 0,
                        !.pc = "iy_body"]
  /\ UNCHANGED <<kvars, d2s_args, d2s_in, d2s_out>>

\* lines 58-60
IyBody ==
  /\ d2s.pc = "iy_body"
  /\ d2s' = [d2s EXCEPT !.by = d2s_args.block_size, !.i_by = d2s.i_iy,
                        !.o_by = d2s.o_iy, !.pc = "by_body"]
  /\ UNCHANGED <<kvars, d2s_args, d2s_in, d2s_out>>

\* lines 62-64
ByBody ==
  /\ d2s.pc = "by_body"
  /\ d2s' = [d2s EXCEPT !.ix = d2s_args.input_width, !.i_ix = d2s.i_by,
                        !.o_ix = d2s.o_by, !.pc = "ix_body"]
  /\ UNCHANGED <<kvars, d2s_args, d2s_in, d2s_out>>

\* lines 66-68
IxBody ==
  /\ d2s.pc = "ix_body"
  /\ d2s' = [d2s EXCEPT !.bx = d2s_args.block_size, !.i_bx = d2s.i_ix,
                        !.o_bx = d2s.o_ix, !.pc = "pair_test"]
  /\ UNCHANGED <<kvars, d2s_args, d2s_in, d2s_out>>

\* the test of line 70, then lines 72-74
PairTest ==
  /\ d2s.pc = "pair_test"
  /\ d2s' = IF d2s.bx >= 2
              THEN [d2s EXCEPT !.c = d2s_args.output_channels,
                               !.i_c = d2s.i_bx + 0 * bx_input_increment,
                               !.o_c = d2s.o_bx + 0 * bx_output_increment,
                               !.pc = "copy0"]
              ELSE [d2s EXCEPT !.pc = "rem_test"]
  /\ UNCHANGED <<kvars, d2s_args, d2s_in, d2s_out>>

\* lines 77-80, and lines 83-85 when the loop ends
Copy0 ==
  /\ d2s.pc = "copy0"
  /\ d2s_out' = [d2s_out EXCEPT ![d2s.o_c] = d2s_in[d2s.i_c]]
  /\ d2s' = IF d2s.c - 1 # 0
              THEN [d2s EXCEPT !.c = d2s.c - 1,
                               !.i_c = d2s.i_c + c_input_increment,
                               !.o_c = d2s.o_c + c_output_increment]
              ELSE [d2s EXCEPT !.c = d2s_args.output_channels,
                               !.i_c = d2s.i_bx + 1 * bx_input_increment,
                               !.o_c = d2s.o_bx + 1 * bx_output_increment,
                               !.pc = "copy1"]
  /\ UNCHANGED <<kvars, d2s_args, d2s_in>>

\* lines 88-91, and lines 94-95 and the step of line 70 when the loop ends
Copy1 ==
  /\ d2s.pc = "copy1"
  /\ d2s_out' = [d2s_out EXCEPT ![d2s.o_c] = d2s_in[d2s.i_c]]
  /\ d2s' = IF d2s.c - 1 # 0
              THEN [d2s EXCEPT !.c = d2s.c - 1,
                               !.i_c = d2s.i_c + c_input_increment,
                               !.o_c = d2s.o_c + c_output_increment]
              ELSE [d2s EXCEPT !.c = 0,
                               !.i_bx = d2s.i_bx + 2 * bx_input_increment,
                               !.o_bx = d2s.o_bx + 2 * bx_output_increment,
                               !.bx = d2s.bx - 2,
                               !.pc = "pair_test"]
  /\ UNCHANGED <<kvars, d2s_args, d2s_in>>

\* the test of line 97, then lines 98-100
RemTest ==
  /\ d2s.pc = "rem_test"
  /\ d2s' = IF d2s.bx # 0
              THEN [d2s EXCEPT !.c = d2s_args.output_channels,
                               !.i_c = d2s.i_bx, !.o_c = d2s.o_bx,
                               !.pc = "copy_rem"]
              ELSE [d2s EXCEPT !.pc = "ix_end"]
  /\ UNCHANGED <<kvars, d2s_args, d2s_in, d2s_out>>

\* lines 103-106, and lines 108-109 and the step of line 97 when the loop ends
CopyRem ==
  /\ d2s.pc = "copy_rem"
  /\ d2s_out' = [d2s_out EXCEPT ![d2s.o_c] = d2s_in[d2s.i_c]]
  /\ d2s' = IF d2s.c - 1 # 0
              THEN [d2s EXCEPT !.c = d2s.c - 1,
                               !.i_c = d2s.i_c + c_input_increment,
                               !.o_c = d2s.o_c + c_output_increment]
              ELSE [d2s EXCEPT !.c = 0,
                               !.i_bx = d2s.i_bx + bx_input_increment,
                               !.o_bx = d2s.o_bx + bx_output_increment,
                               !.bx = d2s.bx - 1,
                               !.pc = "rem_test"]
  /\ UNCHANGED <<kvars, d2s_args, d2s_in>>

\* lines 112-114
IxEnd ==
  /\ d2s.pc = "ix_end"
  /\ d2s' = [d2s EXCEPT !.i_ix = d2s.i_ix + ix_input_increment,
                        !.o_ix = d2s.o_ix + ix_output_increment,
                        !.ix = d2s.ix - 1,
                        !.pc = IF d2s.ix - 1 # 0 THEN "ix_body" ELSE "by_end"]
  /\ UNCHANGED <<kvars, d2s_args, d2s_in, d2s_out>>

\* lines 115-117
ByEnd ==
  /\ d2s.pc = "by_end"
  /\ d2s' = [d2s EXCEPT !.i_by = d2s.i_by + by_input_increment,
                        !.o_by = d2s.o_by + by_output_increment,
                        !.by = d2s.by - 1,
                        !.pc = IF d2s.by - 1 # 0 THEN "by_body" ELSE "iy_end"]
  /\ UNCHANGED <<kvars, d2s_args, d2s_in, d2s_out>>

\* lines 118-120
IyEnd ==
  /\ d2s.pc = "iy_end"
  /\ d2s' = [d2s EXCEPT !.i_iy = d2s.i_iy + iy_input_increment,
                        !.o_iy = d2s.o_iy + iy_output_increment,
                        !.iy = d2s.iy - 1,
                        !.pc = IF d2s.iy - 1 # 0 THEN "iy_body" ELSE "done"]
  /\ UNCHANGED <<kvars, d2s_args, d2s_in, d2s_out>>

D2SStep ==
  \/ D2SStart
  \/ IyBody
  \/ ByBody
  \/ IxBody
  \/ PairTest
  \/ Copy0
  \/ Copy1
  \/ RemTest
  \/ CopyRem
  \/ IxEnd
  \/ ByEnd
  \/ IyEnd

(***************************************************************************)
(* The states a depth-to-space call starts from: an input of               *)
(* output_channels * block_size^2 channels in CHW order and an output in   *)
(* HWC order, with `pad` unused words after every input channel and every  *)
(* output pixel (pad = 0: the dense strides of the operator tester), the   *)
(* output filled as the tester fills it.                                   *)
(***************************************************************************)
MaxOutputChannels == 2
MaxInputHeight    == 2
MaxInputWidth     == 2
MaxBlockSize      == 3
Pads              == {0, 1}

\* INT32_C(0xDEADBEAF), as a signed 32-bit number
D2SPrefill == -559038737

D2SArgs(oc, ih, iw, bs, pad) ==
  [output_channels |-> oc, input_height |-> ih, input_width |-> iw,
   block_size |-> bs,
   input_channel_stride |-> (ih * iw + pad) * element_stride,
   input_height_stride  |-> iw * element_stride,
   output_height_stride |-> (iw * bs) * (oc + pad) * element_stride,
   output_width_stride  |-> (oc + pad) * element_stride]
WordOffsets(n) == {element_stride * i : i \in 0..(n - 1)}
InputWord(o) ==
  IF o = 0 THEN Int32Min ELSE IF o = element_stride THEN Int32Max ELSE 3 * o - 40

InitD2S ==
  \E oc \in 1..MaxOutputChannels, ih \in 1..MaxInputHeight,
     iw \in 1..MaxInputWidth, bs \in 1..MaxBlockSize, pad \in Pads :
    /\ d2s_args = D2SArgs(oc, ih, iw, bs, pad)
    /\ d2s_in = [o \in WordOffsets(oc * bs * bs * (ih * iw + pad)) |-> InputWord(o)]
    /\ d2s_out = [o \in WordOffsets((ih * bs) * (iw * bs) * (oc + pad)) |-> D2SPrefill]
    /\ d2s = [pc |-> "start", iy |-> 0, by |-> 0, ix |-> 0, bx |-> 0, c |-> 0,
              i_iy |-> 0, o_iy |-> 0, i_by |-> 0, o_by |-> 0, i_ix |-> 0,
              o_ix |-> 0, i_bx |-> 0, o_bx |-> 0, i_c |-> 0, o_c |-> 0]

(***************************************************************************)
(* One call of the depth-to-space kernel.                                  *)
(***************************************************************************)
InitDepthToSpace ==
  /\ InitKernel({}, {1}, {1}, {8}, {<<24, 0, 0>>}, {0}, {1})
  /\ InitD2S

NextD2S == D2SStep

SpecD2S == InitDepthToSpace /\ [][NextD2S]_vars

(***************************************************************************)
(* The shift step of the requantization (lines 156-163) on its own, on     *)
(* Q31 products and parameters chosen freely: the shift is any of 0..31,   *)
(* remainder_mask is 2^shift - 1 and remainder_threshold is half the mask. *)
(* The lanes hold odd multiples of 2^(shift-1), which are the exact ties,  *)
(* their neighbours, the negations of all of these, and values at the ends *)
(* of the 32-bit range.                                                    *)
(***************************************************************************)
ShiftRoundStep(q) ==
  /\ call[q].pc = "shift_round"
  /\ call' = [call EXCEPT ![q].vacc = ShiftRound(call[q].vq31prod, params),
                          ![q].pc = "rounded"]
  /\ UNCHANGED <<kargs, mem, access, dvars>>

MaxVector == 3

HalfOf(s) == IF s = 0 THEN 0 ELSE Pow2(s - 1)
RoundingParams(s) ==
  LET mask == IF s = 31 THEN Int32Max ELSE Pow2(s) - 1
  IN  [multiplier |-> 1073741824, rounding |-> 1073741824, shift |-> s,
       remainder_mask |-> mask, remainder_threshold |-> mask \div 2,
       output_zero_point |-> 0, output_min |-> -128, output_max |-> 127]
\* (2v + 1) * 2^(s-1) + d, kept inside 0..Int32Max
Magnitude(s, v, d) ==
  LET h == HalfOf(s)
      m == IF h # 0 /\ 2 * v + 1 > (Int32Max - 1) \div h
             THEN Int32Max - 1 - v
             ELSE (2 * v + 1) * h
  IN  IF m + d < 0 THEN 0 ELSE m + d
Products(s, v) ==
  <<Magnitude(s, v, 0), -Magnitude(s, v, 0),
    Magnitude(s, v, 1), -Magnitude(s, v, 1),
    Magnitude(s, v, -1), -Magnitude(s, v, -1),
    Int32Max - v, Int32Min + v>>

InitRound ==
  \E s \in 0..31, v \in 0..MaxVector :
    /\ channels = 8
    /\ input_stride = 24
    /\ input_offset = 0
    /\ output_increment = 0
    /\ zero = ZeroAddr(8, 8)
    /\ params = RoundingParams(s)
    /\ weights = InitWeights(8, 0)
    /\ indirection = InitIndirection(8, 8, 0, 0)
    /\ mem = InitMem(8, 8, 0, 1, 0)
    /\ call = [q \in Calls |->
                 IF q = 1
                   THEN [InitCall(q, {}, 8, 8, 0, 1) EXCEPT
                           !.pc = "shift_round",
                           !.vq31prod = [l \in Lanes |-> Products(s, v)[l + 1]]]
                   ELSE InitCall(q, {}, 8, 8, 0, 1)]
    /\ access = [q \in Calls |-> [rd |-> {}, rdc |-> {}, wr |-> {}, wrd |-> {}]]
    /\ InitD2SIdle

NextRound == \E q \in Calls : ShiftRoundStep(q)

SpecRound == InitRound /\ [][NextRound]_vars

(***************************************************************************)
(* Reference arithmetic of the properties below, on the integers: written  *)
(* apart from the operators that model the kernel's instructions.          *)
(***************************************************************************)
RefInt8(b) == IF b > 127 THEN b - 256 ELSE b
RefInt32(buf, o) ==
  buf[o] + 256 * buf[o + 1] + 65536 * buf[o + 2] + 16777216 * RefInt8(buf[o + 3])
\* b + s reduced to the signed 32-bit range, for a 32-bit b and a small s
RefWrap32(b, s) ==
  IF s > 0 /\ b > Int32Max - s THEN ((b - Int32Max) - 1) + ((s - Int32Max) - 1)
  ELSE IF s < 0 /\ b < Int32Min - s THEN ((b + Int32Max) + 1) + ((s + Int32Max) + 1)
  ELSE b + s
RefOverflows(b, s) ==
  (s > 0 /\ b > Int32Max - s) \/ (s < 0 /\ b < Int32Min - s)
RefSat32(b, s) ==
  IF s > 0 /\ b > Int32Max - s THEN Int32Max
  ELSE IF s < 0 /\ b < Int32Min - s THEN Int32Min
  ELSE b + s
\* bitwise and of the two's complement patterns of x and y
RECURSIVE RefAndNat(_, _)
RefAndNat(x, y) ==
  IF x = 0 \/ y = 0 THEN 0
  ELSE (x % 2) * (y % 2) + 2 * RefAndNat(x \div 2, y \div 2)
RefLow31(x) == IF x < 0 THEN (x + Int32Max) + 1 ELSE x
RefAnd32(x, y) ==
  LET low == RefAndNat(RefLow31(x), RefLow31(y))
  IN  IF x < 0 /\ y < 0 THEN (low - Int32Max) - 1 ELSE low
RefAsr(x, n) == IF n >= 31 THEN (IF x < 0 THEN -1 ELSE 0) ELSE x \div Pow2(n)

\* the indirection entry of column j of call q, its k-th pointer, and the
\* address the tap's row is read at
EntryPointer(q, j, k) == indirection[(call[q].input0 + j * input_stride) \div 8 + k]
RowAddress(q, j, k) ==
  IF EntryPointer(q, j, k) = zero THEN zero ELSE EntryPointer(q, j, k) + input_offset
\* sum over the taps in ks of input * weight for channel c of column j, the
\* weight of tap k read at byte offset base + stride * k of the weights
SumProducts(q, j, c, ks, base, stride) ==
  SumTo(Eval([k \in Taps |->
          IF k \in ks
            THEN RefInt8(mem[RowAddress(q, j, k) + c]) * RefInt8(weights[base + stride * k])
            ELSE 0]), 8)

\* the tile call q is working on
TileOf(q) == (channels - call[q].c) \div 8
AtRequantize(q) == call[q].pc \in {"full_requantize", "tail_requantize"}
\* vq31prod and vacc hold the Q31 products and the scaled values of a tile
Requantized(q) ==
  call[q].pc \in {"full_store", "tail_store4", "tail_store2", "tail_store1"}
\* the bytes of a tile have just been stored: how many, and where
JustStored(q) ==
  \/ call[q].pc \in {"full_bias", "tail_bias"} /\ call[q].c < channels
  \/ call[q].pc = "column_end"
StoredLanes(q) == IF call[q].pc = "column_end" /\ call[q].c # 0 THEN call[q].c ELSE 8
StoredTile(q) == IF call[q].pc = "column_end" /\ call[q].c # 0 THEN TileOf(q) ELSE TileOf(q) - 1
StoredByte(q, l) == mem[call[q].output - StoredLanes(q) + l]

\* the accumulator of channel c of column j of call q, and the eight bytes
\* the requantization makes of the accumulators of tile t
RefBias(c) == RefInt32(weights, 104 * (c \div 8) + 4 * (c % 8))
RefTaps(q, j, c) ==
  SumProducts(q, j, c, Taps, 104 * (c \div 8) + 32 + (c % 8), 8)
RefAcc(q, j, c) == RefWrap32(RefBias(c), RefTaps(q, j, c))
RefTileOut(q, j, t) ==
  Narrow(ShiftRound(Q31Product(Eval([l \in Lanes |-> RefAcc(q, j, 8 * t + l)]),
                               params), params), params)
\* the first byte of column j of call q
ColumnBase(q, j) == call[q].output0 + j * (channels + output_increment)

(***************************************************************************)
(* C1: the accumulator that is requantized for column j, channel c = 8t+l  *)
(* is bias[t][l] + sum over the taps k = 0..8 of                           *)
(* sext(in_jk[c]) * sext(weight[t][k][l]), in 32-bit arithmetic, the bias  *)
(* read at byte offset 104t + 4l and the weight at 104t + 32 + 8k + l of   *)
(* the packed weights, in_jk being the k-th pointer of the entry at        *)
(* input + j * input_stride, plus input_offset unless it is the zero       *)
(* pointer; in full tiles and in the tail tile.                            *)
(***************************************************************************)
C1_Accumulator ==
  \A q \in Calls : AtRequantize(q) =>
    LET t == TileOf(q)
        j == Column(q)
    IN  \A l \in Lanes : 8 * t + l < channels =>
          call[q].vacc[l] =
            RefWrap32(RefInt32(weights, 104 * t + 4 * l),
                      SumProducts(q, j, 8 * t + l, Taps, 104 * t + 32 + l, 8))

\* a tail tile after a full tile, in the second column, with a zero tap, a
\* real tap and an offset, whose taps add something to the bias
C1_Witness ==
  \E q \in Calls :
    /\ call[q].pc = "tail_requantize"
    /\ Column(q) = 1
    /\ TileOf(q) = 1
    /\ input_offset > 0
    /\ \E k \in Taps : EntryPointer(q, 1, k) = zero
    /\ \E k \in Taps : EntryPointer(q, 1, k) # zero
    /\ call[q].vacc[0] # RefInt32(weights, 104)
    /\ call[q].vacc[0] =
         RefInt32(weights, 104) + SumProducts(q, 1, 8, Taps, 104 + 32, 8)

(***************************************************************************)
(* C2: step 3 of the requantization.  As stated in the specification:      *)
(* remainder = (p & remainderMask) + (1 if p < 0), scaled = (p >> shift)   *)
(* - (1 if remainder > remainderThreshold), for every Q31 product p.       *)
(***************************************************************************)
C2_ShiftStepAsStated ==
  \A q \in Calls : Requantized(q) =>
    \A l \in Lanes :
      LET p == call[q].vq31prod[l]
          masked == RefAnd32(p, params.remainder_mask)
          \* masked + 1 > threshold, without forming masked + 1
          above == IF p < 0 THEN masked >= params.remainder_threshold
                            ELSE masked > params.remainder_threshold
          shifted == RefAsr(p, params.shift)
      IN  IF above THEN shifted # Int32Min /\ call[q].vacc[l] = shifted - 1
                   ELSE call[q].vacc[l] = shifted

(***************************************************************************)
(* C2, amended: the kernel computes, in 32-bit two's complement            *)
(* arithmetic, remainder = (p & remainderMask) - (1 if p < 0) and          *)
(* scaled = (p >> shift, arithmetic) + (1 if remainder >                   *)
(* remainderThreshold), for every Q31 product p and every parameter set,   *)
(* in the full-tile and in the tail path.                                  *)
(***************************************************************************)
C2_ShiftStep ==
  \A q \in Calls : Requantized(q) =>
    \A l \in Lanes :
      LET p == call[q].vq31prod[l]
          remainder == RefWrap32(RefAnd32(p, params.remainder_mask),
                                 IF p < 0 THEN -1 ELSE 0)
          shifted == RefAsr(p, params.shift)
      IN  call[q].vacc[l] =
            RefWrap32(shifted, IF remainder > params.remainder_threshold THEN 1 ELSE 0)

\* a tail tile after a full tile whose lane 0 has a negative Q31 product
\* that the remainder test rounds up
C2_Witness ==
  \E q \in Calls :
    /\ call[q].pc \in {"tail_store2", "tail_store1"}
    /\ TileOf(q) = 1
    /\ call[q].vq31prod[0] < 0
    /\ params.shift \in 1..30
    /\ call[q].vacc[0] = RefAsr(call[q].vq31prod[0], params.shift) + 1

(***************************************************************************)
(* C3: saturation.  As stated: with outputMin <= outputMax inside the      *)
(* signed 8-bit range, for every accumulator and every multiplier, shift   *)
(* and zero point, the byte stored is outputMax if scaled + zero point     *)
(* (without wrap) is above outputMax, outputMin if it is below outputMin,  *)
(* and scaled + zero point otherwise.                                      *)
(***************************************************************************)
C3_SaturationAsStated ==
  \A q \in Calls : JustStored(q) =>
    \A l \in 0..(StoredLanes(q) - 1) :
      LET scaled == call[q].vacc[l]
          zp == params.output_zero_point
          stored == RefInt8(StoredByte(q, l))
      IN  IF scaled > params.output_max - zp THEN stored = params.output_max
          ELSE IF scaled < params.output_min - zp THEN stored = params.output_min
          ELSE stored = scaled + zp

(***************************************************************************)
(* C3, amended: the same, for every zero point with                        *)
(* outputMax - 32767 <= zero point <= outputMin + 32768 (every zero point  *)
(* of the signed 8-bit range is one): the byte stored is outputMax,        *)
(* outputMin or scaled + zero point, never a wrapped value, also when      *)
(* scaled does not fit in 16 bits.                                         *)
(***************************************************************************)
ZeroPointInReach ==
  /\ params.output_max - Int16Max <= params.output_zero_point
  /\ params.output_zero_point <= (params.output_min - Int16Min)
C3_Saturation ==
  ZeroPointInReach =>
    \A q \in Calls : JustStored(q) =>
      \A l \in 0..(StoredLanes(q) - 1) :
        LET scaled == call[q].vacc[l]
            zp == params.output_zero_point
            stored == RefInt8(StoredByte(q, l))
        IN  IF scaled > params.output_max - zp THEN stored = params.output_max
            ELSE IF scaled < params.output_min - zp THEN stored = params.output_min
            ELSE stored = scaled + zp

\* a tile with a lane whose scaled value is beyond 16 bits, stored as
\* outputMax, and a lane below 16 bits, stored as outputMin
C3_Witness ==
  \E q \in Calls :
    /\ JustStored(q)
    /\ ZeroPointInReach
    /\ params.output_zero_point # 0
    /\ params.output_min < params.output_max
    /\ \E l \in 0..(StoredLanes(q) - 1) :
         call[q].vacc[l] > Int16Max /\ RefInt8(StoredByte(q, l)) = params.output_max
    /\ \E l \in 0..(StoredLanes(q) - 1) :
         call[q].vacc[l] < Int16Min /\ RefInt8(StoredByte(q, l)) = params.output_min

(***************************************************************************)
(* C4: accumulator overflow.  As stated: when bias + sum of the nine       *)
(* products lies outside the signed 32-bit range the accumulator does not  *)
(* wrap modulo 2^32 but is the sum saturated to the 32-bit range.          *)
(***************************************************************************)
C4_AccumulatorSaturatesAsStated ==
  \A q \in Calls : AtRequantize(q) =>
    \A l \in Lanes :
      LET c == 8 * TileOf(q) + l
      IN  (c < channels /\ RefOverflows(RefBias(c), RefTaps(q, Column(q), c))) =>
            call[q].vacc[l] = RefSat32(RefBias(c), RefTaps(q, Column(q), c))

(***************************************************************************)
(* C4, amended: when bias + sum of the nine products lies outside the      *)
(* signed 32-bit range, the accumulator is that sum wrapped modulo 2^32    *)
(* into the 32-bit range (never the saturated sum), and the byte stored is *)
(* the requantization of the wrapped sum.                                  *)
(***************************************************************************)
C4_AccumulatorWraps ==
  \A q \in Calls :
    /\ AtRequantize(q) =>
         \A l \in Lanes :
           LET c == 8 * TileOf(q) + l
           IN  (c < channels /\ RefOverflows(RefBias(c), RefTaps(q, Column(q), c))) =>
                 /\ call[q].vacc[l] = RefWrap32(RefBias(c), RefTaps(q, Column(q), c))
                 /\ call[q].vacc[l] # RefSat32(RefBias(c), RefTaps(q, Column(q), c))
    /\ JustStored(q) =>
         \A l \in 0..(StoredLanes(q) - 1) :
           LET c == 8 * StoredTile(q) + l
           IN  RefOverflows(RefBias(c), RefTaps(q, Column(q), c)) =>
                 StoredByte(q, l) = RefTileOut(q, Column(q), StoredTile(q))[l]

\* a stored channel whose sum is above the 32-bit range and whose
\* accumulator is negative
C4_Witness ==
  \E q \in Calls :
    /\ AtRequantize(q)
    /\ \E l \in Lanes :
         LET c == 8 * TileOf(q) + l
         IN  /\ c < channels
             /\ RefTaps(q, Column(q), c) > 0
             /\ RefBias(c) > Int32Max - RefTaps(q, Column(q), c)
             /\ call[q].vacc[l] < 0

(***************************************************************************)
(* C5: tail correctness.  For channels = 8n + r, 0 < r < 8, the r bytes    *)
(* the tail path stores for a column are lanes 0..r-1 of what the          *)
(* full-tile accumulation and requantization make of channels 8n..8n+r-1,  *)
(* and lane i is at offset 8n + i of the column's output, for every r.     *)
(***************************************************************************)
FullTileTap(q, j, t, k, vacc01234567) ==
  mm256_add_epi32(
    vacc01234567,
    mm256_mullo_epi32(
      mm256_cvtepi8_epi32(mm_loadl_epi64(mem, RowAddress(q, j, k) + 8 * t)),
      mm256_cvtepi8_epi32(
        mm_loadl_epi64(weights, FullTileAdvance * t + TapWeightOffset(k)))))
FullTileTaps(q, j, t) ==
  LET a  == mm256_loadu_si256(weights, FullTileAdvance * t)
      a0 == FullTileTap(q, j, t, 0, a)
      a1 == FullTileTap(q, j, t, 1, a0)
      a2 == FullTileTap(q, j, t, 2, a1)
      a3 == FullTileTap(q, j, t, 3, a2)
      a4 == FullTileTap(q, j, t, 4, a3)
      a5 == FullTileTap(q, j, t, 5, a4)
      a6 == FullTileTap(q, j, t, 6, a5)
      a7 == FullTileTap(q, j, t, 7, a6)
  IN  FullTileTap(q, j, t, 8, a7)
\* each stage is a set over the previous one, so that it is computed from a
\* value and not from an unevaluated expression
FullTileOutput(q, j, t) ==
  CHOOSE vout \in
    {Narrow(vscaled, params) : vscaled \in
      {ShiftRound(vq31prod, params) : vq31prod \in
        {Q31Product(vacc, params) : vacc \in {FullTileTaps(q, j, t)}}}} : TRUE

C5_TailCorrectness ==
  \A q \in Calls :
    (call[q].pc = "column_end" /\ channels % 8 # 0) =>
      LET n == channels \div 8
          r == channels % 8
          full == FullTileOutput(q, Column(q), n)
      IN  \A i \in 0..(r - 1) :
            mem[ColumnBase(q, Column(q)) + 8 * n + i] = full[i]

\* a tail of 3 channels after a full tile, in the second column: a 2-byte
\* and a 1-byte store, of values that differ
C5_Witness ==
  \E q \in Calls :
    /\ call[q].pc = "column_end"
    /\ channels = 11
    /\ Column(q) = 1
    /\ output_increment > 0
    /\ mem[call[q].output - 1] # mem[call[q].output - 2]
    /\ mem[call[q].output - 2] # mem[call[q].output - 3]

(***************************************************************************)
(* C6: zero taps.  A tap whose indirection pointer is the zero pointer is  *)
(* used without input_offset and adds 0 to the accumulator of every stored *)
(* channel, whatever its weights and input_offset, the zero buffer holding *)
(* zeros for those channels; a tap whose pointer differs from the zero     *)
(* pointer is read at pointer + input_offset.                              *)
(***************************************************************************)
ZeroTaps(q, j) == {k \in Taps : EntryPointer(q, j, k) = zero}
\* the tiles of the column in which tap k has been read
TilesRead(q, k) ==
  TileOf(q) + (IF call[q].pc \in {"full_tap", "tail_tap"} /\ k < call[q].k THEN 1 ELSE 0)
C6_ZeroTap ==
  \A q \in Calls :
    /\ call[q].pc \in {"full_bias", "full_tap", "tail_bias", "tail_tap"} =>
         \A k \in Taps :
           LET ptr == EntryPointer(q, Column(q), k)
           IN  call[q].i[k] =
                 (IF k \in ZeroTaps(q, Column(q)) THEN zero ELSE ptr + input_offset)
                   + 8 * TilesRead(q, k)
    /\ AtRequantize(q) =>
         \A l \in Lanes :
           LET c == 8 * TileOf(q) + l
           IN  c < channels =>
                 call[q].vacc[l] =
                   RefWrap32(RefBias(c),
                             SumProducts(q, Column(q), c, Taps \ ZeroTaps(q, Column(q)),
                                         104 * TileOf(q) + 32 + l, 8))

\* a column with an offset, a zero tap whose weight for lane 0 is not zero
\* and a real tap that adds to lane 0
C6_Witness ==
  \E q \in Calls :
    /\ AtRequantize(q)
    /\ Column(q) = 1
    /\ input_offset > 0
    /\ \E k \in ZeroTaps(q, 1) : weights[104 * TileOf(q) + 32 + 8 * k] # 0
    /\ \E k \in Taps \ ZeroTaps(q, 1) : mem[EntryPointer(q, 1, k)] # 0
    /\ call[q].vacc[0] # RefBias(8 * TileOf(q))

(***************************************************************************)
(* C7: the output pointer.  As stated: output_increment is added only once *)
(* after all the columns of the call, so that the outputs of consecutive   *)
(* columns are contiguous, column j starting at output + j * channels.     *)
(***************************************************************************)
AtColumnStart(q) == call[q].pc \in {"load_pointers", "done"}
C7_AdvanceAfterRowAsStated ==
  \A q \in Calls : AtColumnStart(q) =>
    call[q].output = call[q].output0 + Column(q) * channels

(***************************************************************************)
(* C7, amended: output_increment is added after every column, so that      *)
(* column j starts at output + j * (channels + output_increment) and holds *)
(* `channels` bytes; consecutive columns are contiguous only when          *)
(* output_increment is 0.                                                  *)
(***************************************************************************)
C7_AdvanceAfterColumn ==
  \A q \in Calls : AtColumnStart(q) =>
    /\ call[q].output = call[q].output0 + Column(q) * (channels + output_increment)
    /\ access[q].wr =
         UNION {Range(ColumnBase(q, j), channels) : j \in 0..(Column(q) - 1)}

\* two columns written with a gap between them
C7_Witness ==
  \E q \in Calls :
    /\ call[q].pc = "done"
    /\ Column(q) = 2
    /\ output_increment > 0
    /\ ColumnBase(q, 1) \in access[q].wr
    /\ ColumnBase(q, 1) - 1 \notin access[q].wr

(***************************************************************************)
(* C8: the final partial tile.  As stated: for channels = 8n + r,          *)
(* 0 < r < 8, the tail path reads r biases and nine groups of r weights,   *)
(* the weight of tap k, lane l < r at byte offset 4r + rk + l of the tail  *)
(* tile, and no byte of the weights at or beyond offset 13r of the tail    *)
(* tile.                                                                   *)
(***************************************************************************)
TailLanes == channels % 8
C8_PackedTailAsStated ==
  \A q \in Calls : call[q].pc = "tail_requantize" =>
    /\ \A l \in 0..(TailLanes - 1) :
         call[q].vacc[l] =
           RefWrap32(RefInt32(weights, call[q].w + 4 * l),
                     SumProducts(q, Column(q), 8 * TileOf(q) + l, Taps,
                                 call[q].w + 4 * TailLanes + l, TailLanes))
    /\ \A o \in access[q].wrd : o < call[q].w + 13 * TailLanes

(***************************************************************************)
(* C8, amended: the tail path reads the final partial tile in the layout   *)
(* of a full tile, 8 biases and nine groups of 8 weights: the tile starts  *)
(* at byte 104n of the weights, the bias of lane l is read at offset 4l    *)
(* and the weight of tap k, lane l at offset 32 + 8k + l of the tile, and  *)
(* all the 104 bytes of the tile are read, those at or beyond offset 13r   *)
(* too.                                                                    *)
(***************************************************************************)
C8_PaddedTail ==
  \A q \in Calls : call[q].pc = "tail_requantize" =>
    /\ call[q].w = 104 * (channels \div 8)
    /\ \A l \in 0..(TailLanes - 1) :
         call[q].vacc[l] =
           RefWrap32(RefInt32(weights, call[q].w + 4 * l),
                     SumProducts(q, Column(q), 8 * TileOf(q) + l, Taps,
                                 call[q].w + 32 + l, 8))
    /\ {o \in access[q].wrd : o >= call[q].w} = Range(call[q].w, 104)

\* a tail tile of 3 channels after a full tile, whose lanes' taps add to
\* the bias, and the last byte of the tile read
C8_Witness ==
  \E q \in Calls :
    /\ call[q].pc = "tail_requantize"
    /\ channels = 11
    /\ call[q].w = 104
    /\ 104 + 103 \in access[q].wrd
    /\ \A l \in 0..2 : call[q].vacc[l] # RefInt32(weights, 104 + 4 * l)

(***************************************************************************)
(* C9: two calls on shared weights, parameters, zero buffer and input      *)
(* rows, with disjoint output regions, interleaved load by load and store  *)
(* by store.  As stated: no memory location is written by one call and     *)
(* read or written by the other, and each output region ends with the      *)
(* contents the call produces alone.                                       *)
(***************************************************************************)
OutputRegion(q) ==
  Range(call[q].output0, RegionSize(channels, output_increment, call[q].width0))
\* the byte at address a of the output region of call q after q has run alone
SoloContents(q, a) ==
  LET j == (a - call[q].output0) \div (channels + output_increment)
      c == (a - call[q].output0) % (channels + output_increment)
  IN  IF c < channels THEN RefTileOut(q, j, c \div 8)[c % 8] ELSE OutputFill
FinalContentsAsAlone ==
  \A q \in Calls : call[q].pc = "done" =>
    \A a \in OutputRegion(q) : mem[a] = SoloContents(q, a)
C9_NoSharedLocationAsStated ==
  /\ \A q \in Calls : \A o \in Calls \ {q} :
       access[q].wr \cap (access[o].rd \cup access[o].wr) = {}
  /\ FinalContentsAsAlone

(***************************************************************************)
(* C9, amended: no memory location is written by both calls, and no        *)
(* location written by one call is among the first `channels` bytes the    *)
(* other reads of a row or of the zero buffer; a tail tile's 8-byte loads  *)
(* also read up to 7 bytes past those, which may be locations the other    *)
(* call writes, and which never reach a stored byte: each output region    *)
(* ends with the contents the call produces alone.                         *)
(***************************************************************************)
C9_DisjointWrites ==
  /\ \A q \in Calls : \A o \in Calls \ {q} :
       /\ access[q].wr \cap access[o].wr = {}
       /\ access[q].wr \cap access[o].rdc = {}
       /\ access[q].wr \subseteq OutputRegion(q)
  /\ FinalContentsAsAlone

\* both calls are done, the zero buffer and the rows have no spare bytes
\* after them, and each call has read a location the other has written
C9_Witness ==
  /\ \A q \in Calls : call[q].pc = "done"
  /\ zero + channels = call[1].output0
  /\ access[2].rd \cap access[1].wr # {}
  /\ access[1].wr # {} /\ access[2].wr # {}
  /\ \E a \in OutputRegion(2) : mem[a] # OutputFill

(***************************************************************************)
(* C10: depth to space, CHW to HWC.  After the kernel returns, for all     *)
(* iy < input_height, by < block_size, ix < input_width, bx < block_size,  *)
(* c < output_channels, the output word at byte offset                     *)
(* (iy*block_size + by)*output_height_stride                               *)
(*   + (ix*block_size + bx)*output_width_stride + 4c                       *)
(* is the input word at byte offset                                        *)
(* (c*block_size^2 + by*block_size + bx)*input_channel_stride             *)
(*   + iy*input_height_stride + 4*ix,                                      *)
(* and with dense output strides no output word keeps its pre-fill value.  *)
(***************************************************************************)
DenseOutput ==
  /\ d2s_args.output_width_stride = 4 * d2s_args.output_channels
  /\ d2s_args.output_height_stride =
       d2s_args.input_width * d2s_args.block_size * d2s_args.output_width_stride
C10_DepthToSpace ==
  d2s.pc = "done" =>
    LET a == d2s_args
    IN  /\ \A iy \in 0..(a.input_height - 1), by \in 0..(a.block_size - 1),
              ix \in 0..(a.input_width - 1), bx \in 0..(a.block_size - 1),
              c \in 0..(a.output_channels - 1) :
             d2s_out[(iy * a.block_size + by) * a.output_height_stride
                     + (ix * a.block_size + bx) * a.output_width_stride + 4 * c]
               = d2s_in[(c * a.block_size * a.block_size + by * a.block_size + bx)
                          * a.input_channel_stride
                        + iy * a.input_height_stride + 4 * ix]
        /\ DenseOutput => \A o \in DOMAIN d2s_out : d2s_out[o] # D2SPrefill

\* a finished call with an odd block size above 2 (the unrolled loop and the
\* remainder loop have both run), more than one channel, row and column,
\* and dense strides
C10_Witness ==
  /\ d2s.pc = "done"
  /\ d2s_args.block_size = 3
  /\ d2s_args.output_channels = 2
  /\ d2s_args.input_height = 2
  /\ d2s_args.input_width = 2
  /\ DenseOutput
  /\ d2s_out[0] = d2s_in[0]
  /\ d2s_out[4] # d2s_in[4]

(***************************************************************************)
(* C11: symmetric rounding of the shift step.  When remainderMask is       *)
(* 2^shift - 1 and remainderThreshold is remainderMask >> 1, shift in      *)
(* 0..31, the value after the shift correction is p / 2^shift rounded to   *)
(* the nearest integer, exact ties away from zero, for every 32-bit Q31    *)
(* product p of either sign; so the result for -p is the negation of the   *)
(* result for p.                                                           *)
(***************************************************************************)
\* p mod 2^s, and p / 2^s rounded to nearest with ties away from zero
RefModPow2(p, s) == IF s = 31 THEN RefLow31(p) ELSE p % Pow2(s)
RefRoundHalfAway(p, s) ==
  LET floor == RefAsr(p, s)
      r     == RefModPow2(p, s)
      half  == Pow2(s - 1)
  IN  IF s = 0 THEN p
      ELSE IF r > half \/ (r = half /\ p > 0) THEN floor + 1
      ELSE floor
C11_SymmetricRounding ==
  \A q \in Calls : call[q].pc = "rounded" =>
    /\ \A l \in Lanes :
         call[q].vacc[l] = RefRoundHalfAway(call[q].vq31prod[l], params.shift)
    /\ \A l \in Lanes : \A m \in Lanes :
         (call[q].vq31prod[l] # Int32Min /\ call[q].vq31prod[m] = -call[q].vq31prod[l])
           => call[q].vacc[m] = -call[q].vacc[l]

\* a positive exact tie rounded up and its negation rounded down, and a
\* negative product above a tie rounded up
C11_Witness ==
  \E q \in Calls :
    /\ call[q].pc = "rounded"
    /\ params.shift \in 2..30
    /\ \E l \in Lanes : \E m \in Lanes :
         /\ call[q].vq31prod[l] > 0
         /\ RefModPow2(call[q].vq31prod[l], params.shift) = Pow2(params.shift - 1)
         /\ call[q].vacc[l] = RefAsr(call[q].vq31prod[l], params.shift) + 1
         /\ call[q].vq31prod[m] = -call[q].vq31prod[l]
         /\ call[q].vacc[m] = RefAsr(call[q].vq31prod[m], params.shift)
         /\ call[q].vacc[m] = -call[q].vacc[l]
    /\ \E l \in Lanes :
         /\ call[q].vq31prod[l] < 0
         /\ call[q].vacc[l] = RefAsr(call[q].vq31prod[l], params.shift) + 1

(***************************************************************************)
(* C12: the frame of a call.  The bytes a call writes are exactly the      *)
(* `channels` bytes of every column j < output_width, at                   *)
(* output + j * (channels + output_increment); every other byte of memory  *)
(* (the bytes after the last stored channel of a tail tile, the input      *)
(* rows, the zero buffer) and the weights, parameters and indirection      *)
(* entries are unchanged, for every channels, output_width and             *)
(* output_increment.                                                       *)
(***************************************************************************)
ColumnBytes(q) ==
  UNION {Range(ColumnBase(q, j), channels) : j \in 0..(call[q].width0 - 1)}
C12_WritesOnlyOutput ==
  /\ [](\A q \in Calls :
          /\ access[q].wr \subseteq ColumnBytes(q)
          /\ call[q].pc = "done" => access[q].wr = ColumnBytes(q))
  /\ [][/\ kargs' = kargs
        /\ \A a \in DOMAIN mem :
             mem'[a] # mem[a] => \E q \in Calls : a \in ColumnBytes(q)]_vars

\* two columns of a full tile and a tail of 3 channels, with a gap between
\* the columns: 22 bytes written, the byte after each column unchanged
C12_Witness ==
  \E q \in Calls :
    /\ call[q].pc = "done"
    /\ channels = 11
    /\ call[q].width0 = 2
    /\ output_increment > 0
    /\ Cardinality(access[q].wr) = 22
    /\ mem[ColumnBase(q, 0) + channels] = OutputFill
    /\ mem[ColumnBase(q, 1) + channels] = OutputFill
    /\ mem[ColumnBase(q, 0) + channels - 1] # OutputFill
    /\ mem[ColumnBase(q, 1) + channels - 1] # OutputFill

(***************************************************************************)
(* C13: reads of the rows.  As stated: for every tap of every column,      *)
(* whether it points at an input row or at the zero buffer, the kernel     *)
(* reads only the elements 0..channels-1 from the tap's (offset-adjusted)  *)
(* pointer and never an element at index >= channels, also when channels   *)
(* is not a multiple of 8.                                                 *)
(***************************************************************************)
InColumn(q) ==
  call[q].pc \in {"full_bias", "full_tap", "full_requantize", "full_store",
                  "tail_bias", "tail_tap", "tail_requantize", "tail_store4",
                  "tail_store2", "tail_store1", "column_end"}
\* the bytes read so far of the row of tap k in the column call q is in:
\* i_k is one past the last byte loaded
ReadOfTap(q, k) == call[q].i[k] - RowAddress(q, Column(q), k)
C13_ReadsWithinChannelsAsStated ==
  \A q \in Calls :
    /\ InColumn(q) => \A k \in Taps : ReadOfTap(q, k) <= channels
    /\ access[q].rd \subseteq
         UNION {Range(RowAddress(q, j, k), channels) :
                  j \in 0..(call[q].width0 - 1), k \in Taps}

(***************************************************************************)
(* C13, amended: for every tap of every column the kernel reads the row in *)
(* whole groups of 8 elements, the elements 0..8*ceil(channels/8)-1 from   *)
(* the tap's (offset-adjusted) pointer and none beyond; when channels is   *)
(* not a multiple of 8 these include up to 7 elements at index >=          *)
(* channels, of an input row and of the zero buffer alike.                 *)
(***************************************************************************)
RowBytesRead == 8 * NumTiles(channels)
C13_ReadsWholeTiles ==
  \A q \in Calls :
    /\ InColumn(q) =>
         \A k \in Taps :
           /\ ReadOfTap(q, k) \in {8 * t : t \in 0..NumTiles(channels)}
           /\ Range(RowAddress(q, Column(q), k), ReadOfTap(q, k)) \subseteq access[q].rd
           /\ call[q].pc = "column_end" => ReadOfTap(q, k) = RowBytesRead
    /\ access[q].rd \subseteq
         UNION {Range(RowAddress(q, j, k), RowBytesRead) :
                  j \in 0..(call[q].width0 - 1), k \in Taps}

\* the end of a second column of 11 channels with a zero tap and a real
\* tap: 16 bytes read of each, the last of them 5 past the zero buffer
C13_Witness ==
  \E q \in Calls :
    /\ call[q].pc = "column_end"
    /\ channels = 11
    /\ Column(q) = 1
    /\ \E k \in Taps : EntryPointer(q, 1, k) # zero /\ ReadOfTap(q, k) = 16
    /\ \E k \in Taps : EntryPointer(q, 1, k) = zero /\ ReadOfTap(q, k) = 16
    /\ zero + 15 \in access[q].rd

====
